---- MODULE Spec2Model ----
\* Model of app.py (AI Vocab Master, a Streamlit script).
\*
\* Streamlit runs the whole script top to bottom on every user interaction.
\* Each action below is one interaction together with the script run (and the
\* st.rerun() run, where the handler asks for one) that it triggers.
\* Text is modelled as a sequence of one-character strings so that str.strip()
\* and Python truthiness are computed rather than assumed.
EXTENDS Integers, Sequences, FiniteSets, TLC

VARIABLES
    words,          \* rows of table `words`, in rowid order (SELECT * FROM words)
    history,        \* rows of table `history`, in rowid order
    session_state,  \* st.session_state: function with keys among card_idx, is_flipped
    menu,           \* the sidebar radio "Menu"
    mode,           \* the radio "Select Mode" of the Flashcards page
    api_key,        \* the secret OPENAI_API_KEY or, without one, the sidebar input
    screen,         \* what the last script run rendered below the page header
    api_calls,      \* client.chat.completions.create calls made by the last interaction
    trigger,        \* the widget whose change caused the last script run
    in_flight,      \* the submissions whose request to the model is unanswered
    queued          \* the widget the user changed while the script was waiting

vars == <<words, history, session_state, menu, mode, api_key, screen, api_calls,
          trigger, in_flight, queued>>

-----------------------------------------------------------------------------
\* Bounds of the model.

MaxId == 2          \* largest rowid handed out in table words
MaxHistory == 2     \* rows kept in table history

-----------------------------------------------------------------------------
\* Text.

Blank == " "

\* What the user types into "Enter English Word".
WordInputs == { <<>>, <<Blank>>, <<"a">>, <<"A", Blank>> }

\* What the user types into "Target Word" and "Make a sentence with it".
PracticeInputs ==
    { << <<>>, <<"s">> >>,
      << <<Blank>>, <<"s">> >>,
      << <<"a">>, <<>> >>,
      << <<"a">>, <<Blank>> >>,
      << <<"A", Blank>>, <<"s">> >> }

RECURSIVE lstrip(_)
lstrip(s) == IF s # <<>> /\ Head(s) = Blank THEN lstrip(Tail(s)) ELSE s

RECURSIVE rstrip(_)
rstrip(s) ==
    IF s # <<>> /\ s[Len(s)] = Blank THEN rstrip(SubSeq(s, 1, Len(s) - 1)) ELSE s

\* str.strip()
strip(s) == rstrip(lstrip(s))

\* Python truthiness of a str
Truthy(s) == Len(s) > 0

-----------------------------------------------------------------------------
\* Sidebar.

Menus == {"Add Word", "Flashcards", "Practice", "Manage List"}

ModeA == "Mode A: Recall (See Word -> Defs)"
ModeB == "Mode B: Challenge (See En Def -> Word)"
Modes == {ModeA, ModeB}

NoKey == ""
Keys == {NoKey, "sk"}

\* client is None unless api_key is set
client == api_key # NoKey

-----------------------------------------------------------------------------
\* Database.

\* rowid given to a new row of a table with `id INTEGER PRIMARY KEY`
NextRowId(rows) == IF rows = <<>> THEN 1 ELSE rows[Len(rows)].id + 1

\* the column, were it not declared UNIQUE
WordExists_Never(new_word) == FALSE

\* does INSERT INTO words raise sqlite3.IntegrityError (word TEXT UNIQUE)?
WordExists(new_word) == \E i \in 1..Len(words) : words[i].word = new_word

\* the row INSERT INTO words (...) VALUES (...) adds
WordRow(new_word, data) ==
    [id |-> NextRowId(words), word |-> new_word, def_en |-> data.def_en,
     def_cn |-> data.def_cn, ipa |-> data.ipa, sample_sentence |-> data.sample,
     source_context |-> data.context]

-----------------------------------------------------------------------------
\* The language model.  A reply is what client.chat.completions.create followed
\* by json.loads produces: an exception, or a JSON object.

ReplyError == [kind |-> "error"]

WordInfoKeys == {"def_en", "def_cn", "ipa", "sample", "context"}

\* replies to the prompt of generate_word_info: an exception, an object that
\* lacks keys, or the analysis of the word ("A" has a slang usage, "a" has none)
WordInfoReplies(word) ==
    { ReplyError,
      [kind |-> "json", body |-> [def_en |-> "en"]],
      [kind |-> "json",
       body |-> [def_en |-> "en", def_cn |-> "cn", ipa |-> "ipa", sample |-> "ex",
                 context |-> IF word = <<"A">> THEN "slang" ELSE ""]] }

Perfect == "Perfect"

\* "status": "Perfect" or "Good" or "Incorrect"; the model may answer otherwise
Verdicts == {Perfect, "Good", "perfect"}

\* replies to the prompt of check_sentence: an exception, an object that lacks
\* keys, or a grading
CheckReplies ==
    { ReplyError,
      [kind |-> "json", body |-> [status |-> Perfect]] }
    \cup { [kind |-> "json",
            body |-> [status |-> v, corrected |-> "fix", feedback |-> "why",
                      native_suggestion |-> "native"]] : v \in Verdicts }

\* The value a call returns, the number of requests it made and whether it
\* called st.error.
Returned(isNone, value, calls, error) ==
    [isNone |-> isNone, value |-> value, calls |-> calls, st_error |-> error]

ReturnNone(calls, error) == Returned(TRUE, <<>>, calls, error)

generate_word_info(word, reply) ==
    IF ~client THEN ReturnNone(0, FALSE)
    ELSE IF reply.kind = "error" THEN ReturnNone(1, TRUE)
    ELSE Returned(FALSE, reply.body, 1, FALSE)

\* check_sentence, were it to ask a second time after an exception
check_sentence_Retry(word, sentence, context_info, reply) ==
    IF ~client THEN ReturnNone(0, FALSE)
    ELSE IF reply.kind = "error" THEN ReturnNone(2, TRUE)
    ELSE Returned(FALSE, reply.body, 1, FALSE)

check_sentence(word, sentence, context_info, reply) ==
    IF ~client THEN ReturnNone(0, FALSE)
    ELSE IF reply.kind = "error" THEN ReturnNone(1, TRUE)
    ELSE Returned(FALSE, reply.body, 1, FALSE)

-----------------------------------------------------------------------------
\* Pages.

Msg(m) == [msg |-> m]

EmptyState == [k \in {} |-> 0]

\* random.randint(0, len(df)), one past the last row
RandomIndexes_OffByOne(df) == 0..Len(df)

\* random.randint(0, len(df)-1)
RandomIndexes(df) == 0..(Len(df) - 1)

\* One run of the Flashcards page down to the card, with r the value
\* random.randint returns if it is called.
FlashcardsPage(df, ss, r) ==
    IF df = <<>>
    THEN [ss |-> ss, screen |-> Msg("No words yet. Go add some!")]
    ELSE LET ss1 == IF "card_idx" \in DOMAIN ss THEN ss
                    ELSE ss @@ ("card_idx" :> r)
             ss2 == IF "is_flipped" \in DOMAIN ss1 THEN ss1
                    ELSE ss1 @@ ("is_flipped" :> FALSE)
         IN  IF ss2.card_idx \in 0..(Len(df) - 1)
             THEN [ss |-> ss2, screen |-> Msg("card")]
             ELSE [ss |-> ss2, screen |-> Msg("IndexError")]

\* one piece of text on the card, with the column it is taken from
Item(field, text) == [field |-> field, text |-> text]

GuessPrompt == "Guess the word?"

\* the fields, were Mode B to put the word on the front
CardFields_WordOnFront(md, row) ==
    IF md = ModeA
    THEN [front_main |-> Item("word", row.word),
          front_sub |-> Item("ipa", row.ipa),
          back_main |-> Item("def_cn", row.def_cn),
          back_sub |-> Item("def_en", <<"GB", row.def_en>>),
          context |-> row.source_context]
    ELSE [front_main |-> Item("word", row.word),
          front_sub |-> Item("prompt", GuessPrompt),
          back_main |-> Item("def_en", row.def_en),
          back_sub |-> Item("def_cn", row.def_cn),
          context |-> row.source_context]

\* front_main, front_sub, back_main, back_sub and context for the mode
CardFields(md, row) ==
    IF md = ModeA
    THEN [front_main |-> Item("word", row.word),
          front_sub |-> Item("ipa", row.ipa),
          back_main |-> Item("def_cn", row.def_cn),
          back_sub |-> Item("def_en", <<"GB", row.def_en>>),
          context |-> row.source_context]
    ELSE [front_main |-> Item("def_en", row.def_en),
          front_sub |-> Item("prompt", GuessPrompt),
          back_main |-> Item("word", row.word),
          back_sub |-> Item("def_cn", row.def_cn),
          context |-> row.source_context]

\* card_html: the two faces of the card
card_html(md, row) ==
    LET f == CardFields(md, row)
    IN  [front |-> <<f.front_main, f.front_sub>>,
         back |-> <<f.back_main, f.back_sub>>
                  \o (IF f.context # ""
                      THEN <<Item("source_context", f.context)>> ELSE <<>>)]

\* the values random.randint can return in a run of the Flashcards page
Draws(df, ss) ==
    IF df # <<>> /\ "card_idx" \notin DOMAIN ss THEN RandomIndexes(df) ELSE {0}

\* A script run in which no button is pressed.
RunScript(m) ==
    IF m = "Flashcards"
    THEN \E r \in Draws(words, session_state) :
            LET run == FlashcardsPage(words, session_state, r)
            IN  /\ session_state' = run.ss
                /\ screen' = run.screen
    ELSE /\ session_state' = session_state
         /\ screen' = Msg("form")

-----------------------------------------------------------------------------
\* Interactions.

Widgets == {"Menu", "OpenAI API Key", "Select Mode", "Flip Card", "Next Random",
            "Auto-Generate & Save", "Delete", "Check My Sentence"}

\* The script is not waiting for the model: check_sentence is a blocking call,
\* and a widget change made meanwhile is served when the call has returned.
Idle == in_flight = <<>> /\ UNCHANGED <<in_flight, queued>>

TypeOK ==
    /\ menu \in Menus
    /\ mode \in Modes
    /\ api_key \in Keys
    /\ api_calls \in 0..1
    /\ trigger \in Widgets \cup {"None"}
    /\ \A i \in 1..Len(words) : words[i].id <= MaxId
    /\ Len(history) <= MaxHistory
    /\ DOMAIN session_state \subseteq {"card_idx", "is_flipped"}
    /\ Len(in_flight) <= 1
    /\ queued \in Menus \cup {"None", "Check My Sentence"}

Init ==
    /\ words = <<>>
    /\ history = <<>>
    /\ session_state = EmptyState
    /\ menu = "Add Word"
    /\ mode = ModeA
    /\ api_key \in Keys
    /\ screen = Msg("form")
    /\ api_calls = 0
    /\ trigger = "None"
    /\ in_flight = <<>>
    /\ queued = "None"

\* The user picks another page in the sidebar.  The mode radio exists only on
\* the Flashcards page, so it is back at its first option when that page is
\* entered.
SelectMenu(m) ==
    /\ m # menu
    /\ menu' = m
    /\ mode' = ModeA
    /\ api_calls' = 0
    /\ RunScript(m)
    /\ trigger' = "Menu"
    /\ Idle
    /\ UNCHANGED <<words, history, api_key>>

\* The user types or clears the key in the sidebar.
EnterApiKey(k) ==
    /\ k # api_key
    /\ api_key' = k
    /\ api_calls' = 0
    /\ RunScript(menu)
    /\ trigger' = "OpenAI API Key"
    /\ Idle
    /\ UNCHANGED <<words, history, menu, mode>>

\* the switch, were it to turn the card face up again
SetMode_Unflip(md) ==
    /\ menu = "Flashcards"
    /\ md # mode
    /\ mode' = md
    /\ api_calls' = 0
    /\ \E r \in Draws(words, session_state) :
          LET run == FlashcardsPage(words, session_state, r)
          IN  /\ session_state' = [k \in DOMAIN run.ss |->
                                     IF k = "is_flipped" THEN FALSE ELSE run.ss[k]]
              /\ screen' = run.screen
    /\ trigger' = "Select Mode"
    /\ Idle
    /\ UNCHANGED <<words, history, menu, api_key>>

\* "Select Mode"
SetMode(md) ==
    /\ menu = "Flashcards"
    /\ md # mode
    /\ mode' = md
    /\ api_calls' = 0
    /\ RunScript(menu)
    /\ trigger' = "Select Mode"
    /\ Idle
    /\ UNCHANGED <<words, history, menu, api_key>>

\* st.session_state.is_flipped = not st.session_state.is_flipped
OnFlip(ss) == [ss EXCEPT !.is_flipped = ~ss.is_flipped]

\* the handler without its second assignment
OnNextRandom_KeepFlip(ss, r) == [ss EXCEPT !.card_idx = r]

\* st.session_state.card_idx = random.randint(...); is_flipped = False
OnNextRandom(ss, r) == [ss EXCEPT !.card_idx = r, !.is_flipped = FALSE]

\* "Flip Card": the button exists when the last run rendered the card.  The
\* click runs the script up to the button, then st.rerun() runs it again.
Flip ==
    /\ menu = "Flashcards"
    /\ screen.msg = "card"
    /\ LET run == FlashcardsPage(words, session_state, 0)
           ss == OnFlip(run.ss)
           rerun == FlashcardsPage(words, ss, 0)
       IN  /\ run.screen.msg = "card"
           /\ session_state' = rerun.ss
           /\ screen' = rerun.screen
    /\ api_calls' = 0
    /\ trigger' = "Flip Card"
    /\ Idle
    /\ UNCHANGED <<words, history, menu, mode, api_key>>

\* "Next Random"
NextRandom ==
    /\ menu = "Flashcards"
    /\ screen.msg = "card"
    /\ \E r \in RandomIndexes(words) :
         LET run == FlashcardsPage(words, session_state, 0)
             ss == OnNextRandom(run.ss, r)
             rerun == FlashcardsPage(words, ss, 0)
         IN  /\ run.screen.msg = "card"
             /\ session_state' = rerun.ss
             /\ screen' = rerun.screen
    /\ api_calls' = 0
    /\ trigger' = "Next Random"
    /\ Idle
    /\ UNCHANGED <<words, history, menu, mode, api_key>>

\* --- Add Word -------------------------------------------------------------

\* A click on "Auto-Generate & Save" with `raw` typed into the word field:
\* the table afterwards, what is shown, and the requests made.
AddWordPage(raw, reply) ==
    LET new_word == strip(raw)
        info == generate_word_info(new_word, reply)
        Same(m, calls) == [words |-> words, screen |-> Msg(m), calls |-> calls]
    IN  IF ~Truthy(new_word) THEN Same("Please enter a word.", 0)
        ELSE IF ~client THEN Same("Please provide OpenAI API Key in Sidebar.", 0)
        ELSE IF info.isNone
             THEN Same(IF info.st_error THEN "AI Error" ELSE "form", info.calls)
        ELSE IF ~(WordInfoKeys \subseteq DOMAIN info.value)
             THEN Same("KeyError", info.calls)
        ELSE IF WordExists(new_word)
             THEN Same("Word already exists in database!", info.calls)
        ELSE [words |-> Append(words, WordRow(new_word, info.value)),
              screen |-> Msg("Added"), calls |-> info.calls]

AddWord(raw, reply) ==
    /\ menu = "Add Word"
    /\ LET run == AddWordPage(raw, reply)
       IN  /\ run.words # <<>> => run.words[Len(run.words)].id <= MaxId
           /\ words' = run.words
           /\ screen' = run.screen
           /\ api_calls' = run.calls
    /\ trigger' = "Auto-Generate & Save"
    /\ Idle
    /\ UNCHANGED <<history, session_state, menu, mode, api_key>>

\* --- Manage List ----------------------------------------------------------

\* the table words without its i-th row
RemoveAt(rows, i) == SubSeq(rows, 1, i - 1) \o SubSeq(rows, i + 1, Len(rows))

\* The user deletes a word on the Manage List page.
DeleteWord(i) ==
    /\ menu = "Manage List"
    /\ i \in 1..Len(words)
    /\ words' = RemoveAt(words, i)
    /\ screen' = Msg("form")
    /\ api_calls' = 0
    /\ trigger' = "Delete"
    /\ Idle
    /\ UNCHANGED <<history, session_state, menu, mode, api_key>>

\* --- Practice -------------------------------------------------------------

\* the outcome of a click on "Check My Sentence", with the two fields as read
Shown(m, target_word, user_sent) ==
    [msg |-> m, target_word |-> target_word, user_sent |-> user_sent]

\* wordId of a PracticeSession whose word matched no vocabulary term
UnknownWord == 0

\* SELECT * FROM words WHERE word = ?
FindWord(target_word) == { i \in 1..Len(words) : words[i].word = target_word }

CheckKeys == {"status", "corrected", "feedback", "native_suggestion"}

\* isCorrect, were every verdict but "Incorrect" to count
IsCorrect_NotIncorrect(status) == status # "Incorrect"

\* isCorrect of a PracticeSession, from the verdict
IsCorrect(status) == status = Perfect

\* the row added to table history
HistoryRow(target_word, user_sent, result) ==
    [id |-> NextRowId(history), target_word |-> target_word,
     user_sentence |-> user_sent, correction |-> result.corrected,
     feedback |-> result.feedback, status |-> result.status]

\* the table with rows read back newest first
InsertHistory_NewestFirst(rows, row) ==
    IF \E i \in 1..Len(rows) : rows[i].id = row.id
    THEN [rows |-> rows, error |-> "IntegrityError"]
    ELSE [rows |-> <<row>> \o rows, error |-> "None"]

\* the table, were id not its primary key
InsertHistory_NoKey(rows, row) == [rows |-> Append(rows, row), error |-> "None"]

\* INSERT INTO history: id is the primary key, so a row whose id is taken is
\* refused with sqlite3.IntegrityError and the table stays as it is
InsertHistory(rows, row) ==
    IF \E i \in 1..Len(rows) : rows[i].id = row.id
    THEN [rows |-> rows, error |-> "IntegrityError"]
    ELSE [rows |-> Append(rows, row), error |-> "None"]

\* the word id, were the first row taken when nothing matched
WordId_FirstRow(found) ==
    IF found = {} THEN (IF words = <<>> THEN 1 ELSE words[1].id)
    ELSE words[CHOOSE i \in found : TRUE].id

\* wordId of the PracticeSession: the matched word, or the unknown sentinel
WordId(found) ==
    IF found = {} THEN UnknownWord ELSE words[CHOOSE i \in found : TRUE].id

\* the warning returned with the result when no word matched
MatchWarning(found) == IF found = {} THEN "NoMatchWarning" ELSE ""

\* the graded branch, were the attempt logged before the answer is examined
Grade_LogAlways(target_word, user_sent, reply) ==
    LET found == FindWord(target_word)
        word_id == WordId(found)
        context_info == IF found = {} THEN "generic"
                        ELSE words[CHOOSE i \in found : TRUE].def_en
        ret == check_sentence(target_word, user_sent, context_info, reply)
        Same(m) == [history |-> Append(history, [id |-> NextRowId(history)]), screen |-> Shown(m, target_word, user_sent),
                    calls |-> ret.calls]
    IN  IF ret.isNone THEN Same(IF ret.st_error THEN "AI Error" ELSE "no result")
        ELSE IF ~(CheckKeys \subseteq DOMAIN ret.value) THEN Same("MalformedResponse")
        ELSE [history |-> InsertHistory(history,
                              HistoryRow(target_word, user_sent, ret.value)).rows,
              screen |-> [msg |-> "graded",
                          target_word |-> target_word,
                          user_sent |-> user_sent,
                          word_id |-> word_id,
                          is_correct |-> IsCorrect(ret.value.status),
                          warning |-> MatchWarning(found)],
              calls |-> ret.calls]

\* The graded branch of the Practice page: look the word up, ask the model
\* once, and on a well-formed answer log the attempt and show the result.
Grade(target_word, user_sent, reply) ==
    LET found == FindWord(target_word)
        word_id == WordId(found)
        context_info == IF found = {} THEN "generic"
                        ELSE words[CHOOSE i \in found : TRUE].def_en
        ret == check_sentence(target_word, user_sent, context_info, reply)
        Same(m) == [history |-> history, screen |-> Shown(m, target_word, user_sent),
                    calls |-> ret.calls]
    IN  IF ret.isNone THEN Same(IF ret.st_error THEN "AI Error" ELSE "no result")
        ELSE IF ~(CheckKeys \subseteq DOMAIN ret.value) THEN Same("MalformedResponse")
        ELSE [history |-> InsertHistory(history,
                              HistoryRow(target_word, user_sent, ret.value)).rows,
              screen |-> [msg |-> "graded",
                          target_word |-> target_word,
                          user_sent |-> user_sent,
                          word_id |-> word_id,
                          is_correct |-> IsCorrect(ret.value.status),
                          warning |-> MatchWarning(found)],
              calls |-> ret.calls]

\* the click, were the page to leave the key check to check_sentence
PracticePage_NoKeyCheck(raw_word, raw_sent, reply) ==
    LET target_word == strip(raw_word)
        user_sent == raw_sent
        Same(m) == [history |-> history, screen |-> Shown(m, target_word, user_sent),
                    calls |-> 0]
    IN  IF ~Truthy(target_word) \/ ~Truthy(user_sent)
        THEN Same("Please fill in both fields.")
        ELSE Grade(target_word, user_sent, reply)

\* A click on "Check My Sentence" with raw_word and raw_sent typed into the
\* two fields.
PracticePage(raw_word, raw_sent, reply) ==
    LET target_word == strip(raw_word)
        user_sent == raw_sent
        Same(m) == [history |-> history, screen |-> Shown(m, target_word, user_sent),
                    calls |-> 0]
    IN  IF ~Truthy(target_word) \/ ~Truthy(user_sent)
        THEN Same("Please fill in both fields.")
        ELSE IF ~client THEN Same("No API Key found.")
        ELSE Grade(target_word, user_sent, reply)

\* the click, were a graded word that is not in the vocabulary saved to it
CheckMySentence_SavesWord(raw_word, raw_sent, reply) ==
    /\ menu = "Practice"
    /\ LET run == PracticePage(raw_word, raw_sent, reply)
       IN  /\ Len(run.history) <= MaxHistory
           /\ history' = run.history
           /\ screen' = run.screen
           /\ api_calls' = run.calls
           /\ words' = IF run.screen.msg = "graded" /\ run.screen.word_id = UnknownWord
                       THEN Append(words, [id |-> NextRowId(words),
                                           word |-> run.screen.target_word])
                       ELSE words
    /\ trigger' = "Check My Sentence"
    /\ Idle
    /\ UNCHANGED <<session_state, menu, mode, api_key>>

CheckMySentence(raw_word, raw_sent, reply) ==
    /\ menu = "Practice"
    /\ LET run == PracticePage(raw_word, raw_sent, reply)
       IN  /\ Len(run.history) <= MaxHistory
           /\ history' = run.history
           /\ screen' = run.screen
           /\ api_calls' = run.calls
    /\ trigger' = "Check My Sentence"
    /\ Idle
    /\ UNCHANGED <<words, session_state, menu, mode, api_key>>

\* --- Practice, with the request to the model as a step of its own ---------

\* A click on "Check My Sentence" that passes both checks: the request is sent
\* and the script waits for the answer.
BeginCheck(raw_word, raw_sent) ==
    /\ menu = "Practice"
    /\ in_flight = <<>>
    /\ Truthy(strip(raw_word)) /\ Truthy(raw_sent)
    /\ client
    /\ Len(history) < MaxHistory
    /\ in_flight' = <<[target_word |-> strip(raw_word), user_sent |-> raw_sent]>>
    /\ queued' = "None"
    /\ screen' = Msg("running")
    /\ api_calls' = 1
    /\ trigger' = "Check My Sentence"
    /\ UNCHANGED <<words, history, session_state, menu, mode, api_key>>

\* While the script waits, the button and the sidebar stay enabled: the user
\* presses "Check My Sentence" again or picks another page.
Interact(w) ==
    /\ in_flight # <<>>
    /\ queued = "None"
    /\ w \in {"Check My Sentence"} \cup (Menus \ {menu})
    /\ w = "Check My Sentence" => Len(history) + 1 < MaxHistory
    /\ queued' = w
    /\ UNCHANGED <<words, history, session_state, menu, mode, api_key, screen,
                   api_calls, trigger, in_flight>>

\* The answer arrives.  The attempt is logged and then shown; a run that the
\* user has interrupted stops at its next output, after the row is written,
\* and the script runs again for the widget the user changed.
EndCheck(reply) ==
    /\ in_flight # <<>>
    /\ LET req == in_flight[1]
           run == Grade(req.target_word, req.user_sent, reply)
       IN  /\ history' = run.history
           /\ IF queued = "None"
              THEN /\ screen' = run.screen
                   /\ in_flight' = <<>>
                   /\ api_calls' = run.calls
                   /\ UNCHANGED <<session_state, menu, mode, trigger>>
              ELSE IF queued = "Check My Sentence"
              THEN /\ screen' = Msg("running")
                   /\ in_flight' = <<req>>
                   /\ api_calls' = 1
                   /\ UNCHANGED <<session_state, menu, mode, trigger>>
              ELSE /\ menu' = queued
                   /\ mode' = ModeA
                   /\ RunScript(queued)
                   /\ in_flight' = <<>>
                   /\ api_calls' = 0
                   /\ trigger' = "Menu"
    /\ queued' = "None"
    /\ UNCHANGED <<words, api_key>>

-----------------------------------------------------------------------------

Next ==
    \/ \E m \in Menus : SelectMenu(m)
    \/ \E k \in Keys : EnterApiKey(k)
    \/ \E md \in Modes : SetMode(md)
    \/ Flip
    \/ NextRandom
    \/ \E raw \in WordInputs : \E reply \in WordInfoReplies(strip(raw)) :
          AddWord(raw, reply)
    \/ \E i \in 1..MaxId : DeleteWord(i)
    \/ \E input \in PracticeInputs, reply \in CheckReplies :
          CheckMySentence(input[1], input[2], reply)

Spec == Init /\ [][Next]_vars

NextInFlight ==
    \/ \E m \in Menus : SelectMenu(m)
    \/ \E k \in Keys : EnterApiKey(k)
    \/ \E md \in Modes : SetMode(md)
    \/ Flip
    \/ NextRandom
    \/ \E raw \in WordInputs : \E reply \in WordInfoReplies(strip(raw)) :
          AddWord(raw, reply)
    \/ \E i \in 1..MaxId : DeleteWord(i)
    \/ \E input \in PracticeInputs, reply \in CheckReplies :
          CheckMySentence(input[1], input[2], reply)
    \/ \E input \in PracticeInputs : BeginCheck(input[1], input[2])
    \/ \E w \in Menus \cup {"Check My Sentence"} : Interact(w)
    \/ \E reply \in CheckReplies : EndCheck(reply)

\* the program with the user acting while a request is unanswered
SpecInFlight == Init /\ [][NextInFlight]_vars

-----------------------------------------------------------------------------
\* Properties.

\* a ReviewState is stored
HasReview == "card_idx" \in DOMAIN session_state

NoWordsMsg == "No words yet. Go add some!"
FillInMsg == "Please fill in both fields."
NoKeyMsg == "No API Key found."

\* the last run was a click on "Check My Sentence"
Checked == trigger = "Check My Sentence"

\* text that is empty or whitespace only
IsBlank(s) == strip(s) = <<>>

\* C1: whenever a ReviewState is stored and the word set is non-empty, the
\* stored index satisfies 0 <= card_idx < len(df), also after words were added
\* or deleted.
C1_IndexInRange ==
    (HasReview /\ words # <<>>) => session_state.card_idx \in 0..(Len(words) - 1)

\* C2: Next Random leaves is_flipped = False and card_idx in 0..len(df)-1, and
\* every step that changes (or first sets) card_idx ends with is_flipped = False.
C2_NextUnflips ==
    [][ /\ NextRandom =>
            /\ session_state'.is_flipped = FALSE
            /\ session_state'.card_idx \in 0..(Len(words') - 1)
        /\ ( /\ HasReview'
             /\ ~HasReview \/ session_state'.card_idx # session_state.card_idx )
           => session_state'.is_flipped = FALSE ]_vars

\* Next Random was pressed with two words stored and drew the second
C2_Witness ==
    /\ trigger = "Next Random"
    /\ Len(words) = 2
    /\ session_state.card_idx = 1
    /\ session_state.is_flipped = FALSE

\* C3: Flip is available in every state of the Flashcards page in which a
\* ReviewState is stored and the word set is non-empty; it negates is_flipped and leaves card_idx and mode
\* alone, and flipping twice gives the state back.
C3_FlipAlwaysEnabled ==
    /\ [](menu = "Flashcards" /\ HasReview /\ words # <<>> => ENABLED Flip)
    /\ [](HasReview => OnFlip(OnFlip(session_state)) = session_state)
    /\ [][trigger' = "Flip Card" =>
            /\ session_state'.is_flipped = ~session_state.is_flipped
            /\ session_state'.card_idx = session_state.card_idx
            /\ mode' = mode]_vars

\* C4: a change of "Select Mode" changes the mode and leaves card_idx and
\* is_flipped as they were.
C4_SetModeFrame ==
    [][trigger' = "Select Mode" =>
          /\ mode' # mode
          /\ session_state' = session_state
          /\ words' = words]_vars

\* the mode was switched while the card was face down (flipped)
C4_Witness ==
    /\ trigger = "Select Mode"
    /\ mode = ModeB
    /\ HasReview
    /\ session_state.is_flipped = TRUE
    /\ screen.msg = "card"

\* C5: a run of the Flashcards page with no ReviewState stored reports the
\* empty word set and stores nothing, or, the set being non-empty, stores
\* is_flipped = False and a card_idx inside the set under the selected mode.
C5_Start ==
    [][(menu' = "Flashcards" /\ ~HasReview) =>
          IF words' = <<>>
          THEN /\ screen'.msg = NoWordsMsg
               /\ session_state' = EmptyState
          ELSE /\ DOMAIN session_state' = {"card_idx", "is_flipped"}
               /\ session_state'.is_flipped = FALSE
               /\ session_state'.card_idx \in 0..(Len(words') - 1)
               /\ screen'.msg = "card"
               /\ mode' \in Modes]_vars

\* the Flashcards page was opened on an empty word set
C5_Witness ==
    /\ menu = "Flashcards"
    /\ trigger = "Menu"
    /\ words = <<>>
    /\ screen.msg = NoWordsMsg
    /\ session_state = EmptyState

\* C6: a submission whose word or sentence is empty or whitespace only is
\* rejected with the fill-in warning, makes no request and logs nothing.
C6_BlankRejected ==
    [][(trigger' = "Check My Sentence"
          /\ (IsBlank(screen'.target_word) \/ IsBlank(screen'.user_sent))) =>
          /\ screen'.msg = FillInMsg
          /\ api_calls' = 0
          /\ history' = history]_vars

\* C7 as stated: every submission made without a client is rejected with the
\* missing-key error, makes no request and logs nothing.
C7_NoKeyAlwaysKeyError ==
    [][(trigger' = "Check My Sentence" /\ ~client) =>
          /\ screen'.msg = NoKeyMsg
          /\ api_calls' = 0
          /\ history' = history]_vars

\* C7, amended: a submission made without a client makes no request and logs
\* nothing; it is rejected with the missing-key error when both fields pass
\* the empty-input check, and with the fill-in warning otherwise.
C7_NoKeyRejected ==
    [][(trigger' = "Check My Sentence" /\ ~client) =>
          /\ api_calls' = 0
          /\ history' = history
          /\ screen'.msg =
                IF Truthy(screen'.target_word) /\ Truthy(screen'.user_sent)
                THEN NoKeyMsg ELSE FillInMsg]_vars

\* a filled-in submission was rejected for the missing key, with the log non-empty
C7_Witness ==
    /\ Checked
    /\ ~client
    /\ screen.msg = NoKeyMsg
    /\ Truthy(screen.target_word) /\ Truthy(screen.user_sent)
    /\ history # <<>>

\* C8: a step appends exactly one row to history when it is a submission that
\* shows a grading, and leaves history as it is otherwise; so the length of
\* history is the number of graded submissions.
C8_OneRowPerGrading ==
    [][history' =
          IF trigger' = "Check My Sentence" /\ screen'.msg = "graded"
          THEN Append(history, history'[Len(history')])
          ELSE history]_vars

\* a second graded submission
C8_Witness ==
    /\ Checked
    /\ screen.msg = "graded"
    /\ Len(history) = 2

\* C9: a submission that is not rejected by the input or key check makes
\* exactly one request, a rejected one none; a failed request ends the
\* submission with an error shown.
C9_OneRequest ==
    Checked =>
        \/ /\ screen.msg \in {FillInMsg, NoKeyMsg}
           /\ api_calls = 0
        \/ /\ screen.msg \in {"graded", "AI Error", "MalformedResponse"}
           /\ api_calls = 1

\* a request failed
C9_Witness ==
    /\ Checked
    /\ screen.msg = "AI Error"
    /\ api_calls = 1

lower(s) == [i \in 1..Len(s) |-> IF s[i] = "A" THEN "a" ELSE s[i]]

\* the rows whose term equals t up to letter case
SameTerm(t) == { i \in 1..Len(words) : lower(words[i].word) = lower(t) }

\* a reply to check_sentence with every required field
WellFormed(reply) == reply.kind = "json" /\ CheckKeys \subseteq DOMAIN reply.body

\* C11: a submission with filled-in fields, a key and a well-formed answer whose
\* word matches no vocabulary term is graded: the result carries the unknown
\* word id and the NoMatchWarning, and the attempt is appended to history.
C11_UnknownWordGraded ==
    [][trigger' = "Check My Sentence" =>
       \A input \in PracticeInputs, reply \in CheckReplies :
          ( /\ client
            /\ Truthy(strip(input[1])) /\ Truthy(input[2])
            /\ WellFormed(reply)
            /\ SameTerm(strip(input[1])) = {}
            /\ CheckMySentence(input[1], input[2], reply) )
          => /\ screen'.msg = "graded"
             /\ screen'.word_id = UnknownWord
             /\ screen'.warning = "NoMatchWarning"
             /\ Len(history') = Len(history) + 1
             /\ SubSeq(history', 1, Len(history)) = history
             /\ history'[Len(history')].target_word = strip(input[1])]_vars

\* a word was graded against an empty vocabulary
C11_Witness ==
    /\ Checked
    /\ words = <<>>
    /\ screen.msg = "graded"
    /\ screen.word_id = UnknownWord
    /\ screen.warning = "NoMatchWarning"
    /\ history # <<>>

\* C12: when the typed word equals a stored term up to letter case, the graded
\* result carries that word's id and no NoMatchWarning.
C12_CaseInsensitiveMatch ==
    (Checked /\ screen.msg = "graded" /\ SameTerm(screen.target_word) # {}) =>
        /\ screen.warning = ""
        /\ \E i \in SameTerm(screen.target_word) : screen.word_id = words[i].id

HistoryColumns ==
    {"id", "target_word", "user_sentence", "correction", "feedback", "status"}

\* C13: history only grows at its end: every step leaves the old rows as a
\* prefix, rows stay in order of creation, and a graded attempt is the last row.
C13_AppendOnly ==
    [][ /\ Len(history) <= Len(history')
        /\ SubSeq(history', 1, Len(history)) = history
        /\ \A i, j \in 1..Len(history') : i < j => history'[i].id < history'[j].id
        /\ (trigger' = "Check My Sentence" /\ screen'.msg = "graded") =>
              /\ history' # history
              /\ history'[Len(history')].target_word = screen'.target_word
              /\ history'[Len(history')].user_sentence = screen'.user_sent ]_vars

\* a second attempt was graded after a first with another word
C13_Witness ==
    /\ Checked
    /\ screen.msg = "graded"
    /\ Len(history) = 2
    /\ history[1].target_word # history[2].target_word

CardShown == menu = "Flashcards" /\ screen.msg = "card"
CurrentRow == words[session_state.card_idx + 1]
CurrentCard == card_html(mode, CurrentRow)

\* the faces of Mode A, and the front of Mode B, as the spec gives them
RecallFaces(row, card) ==
    /\ card.front = <<Item("word", row.word), Item("ipa", row.ipa)>>
    /\ card.back =
          <<Item("def_cn", row.def_cn), Item("def_en", <<"GB", row.def_en>>)>>
          \o (IF row.source_context # ""
              THEN <<Item("source_context", row.source_context)>> ELSE <<>>)

ChallengeFront(row, card) ==
    /\ card.front = <<Item("def_en", row.def_en), Item("prompt", GuessPrompt)>>
    /\ \A k \in 1..Len(card.front) : card.front[k].field # "word"

\* C17 as stated: in Mode A the front is {word, ipa} and the back {def_cn,
\* def_en, and source_context when non-empty}; in Mode B the front is {def_en,
\* prompt} without the word and the back is exactly {word, def_cn}.
C17_ChallengeBackExact ==
    CardShown =>
        IF mode = ModeA THEN RecallFaces(CurrentRow, CurrentCard)
        ELSE /\ ChallengeFront(CurrentRow, CurrentCard)
             /\ CurrentCard.back = <<Item("word", CurrentRow.word),
                                     Item("def_cn", CurrentRow.def_cn)>>

\* C17, amended: as above, but the back of Mode B is {word, def_cn, and
\* source_context when non-empty}.
C17_CardContent ==
    CardShown =>
        IF mode = ModeA THEN RecallFaces(CurrentRow, CurrentCard)
        ELSE /\ ChallengeFront(CurrentRow, CurrentCard)
             /\ CurrentCard.back =
                   <<Item("word", CurrentRow.word), Item("def_cn", CurrentRow.def_cn)>>
                   \o (IF CurrentRow.source_context # ""
                       THEN <<Item("source_context", CurrentRow.source_context)>>
                       ELSE <<>>)

\* a word with a slang note is shown in Mode B
C17_Witness ==
    /\ CardShown
    /\ mode = ModeB
    /\ CurrentRow.source_context = "slang"
    /\ Len(CurrentCard.back) = 3

\* the widgets of the grader and of the flashcard reviewer
CoreWidgets == {"Check My Sentence", "Menu", "Select Mode", "Flip Card", "Next Random"}

\* C18: a submission (graded or rejected), the opening of a page, a mode
\* switch, Flip and Next Random leave table words as it is.
C18_WordsUntouched ==
    [][trigger' \in CoreWidgets => words' = words]_vars

\* an unknown word was graded while the vocabulary held a word
C18_Witness ==
    /\ Checked
    /\ screen.msg = "graded"
    /\ screen.word_id = UnknownWord
    /\ words # <<>>
    /\ HasReview

\* a full analysis of the word
FullInfo(reply) == reply.kind = "json" /\ WordInfoKeys \subseteq DOMAIN reply.body

\* C19: no two rows of words share a word or an id; a click on Save with a
\* stored word, a blank word, no key or a failed analysis leaves words as it is.
C19_UniqueWords ==
    /\ [](\A i, j \in 1..Len(words) :
            i # j => /\ words[i].word # words[j].word
                     /\ words[i].id # words[j].id)
    /\ [][trigger' = "Auto-Generate & Save" =>
          \A raw \in WordInputs : \A reply \in WordInfoReplies(strip(raw)) :
             ( /\ \/ IsBlank(raw)
                  \/ ~client
                  \/ ~FullInfo(reply)
                  \/ \E i \in 1..Len(words) : words[i].word = strip(raw)
               /\ AddWord(raw, reply) )
             => words' = words]_vars

\* a stored word was entered again with two words stored
C19_Witness ==
    /\ trigger = "Auto-Generate & Save"
    /\ screen.msg = "Word already exists in database!"
    /\ Len(words) = 2

\* C15: a result that arrives after the user has left the page or submitted
\* again is discarded: it is neither appended to history nor shown.
C15_StaleDiscarded ==
    [][(in_flight # <<>> /\ queued # "None") =>
          /\ history' = history
          /\ screen'.msg # "graded"]_vars

\* submissions accepted and not yet answered
Outstanding == Len(in_flight) + (IF queued = "Check My Sentence" THEN 1 ELSE 0)

\* C16: at most one submission is outstanding: while a request is unanswered
\* no further submission is accepted.
C16_OneOutstanding == Outstanding <= 1

====
